---- MODULE Spec2Model ----
(***************************************************************************)
(* Model of src/action/phase_correlation.py (class PhaseCorrelation):      *)
(* the parameter dictionary, the analysis driver _process_movie with its   *)
(* memory-mapped data file, and the segment query methods.                 *)
(*                                                                         *)
(* Conventions.  The source is Python 2: "/" between two ints is floor     *)
(* division.  A parameter dictionary is a function from key strings to     *)
(* values.  A decoded frame is identified by its position in the movie.    *)
(* A float stored in the data file is an exact fraction <<num, den>> in    *)
(* lowest terms; a float read at a byte offset that is not a multiple of 4 *)
(* is a 5-tuple naming the two stored floats whose bytes it straddles.     *)
(* The movie file exists and OpenCV is importable.                         *)
(***************************************************************************)
EXTENDS Integers, Sequences, FiniteSets, TLC

VARIABLES
    ctor_params,      \* history: the keyword arguments given to __init__
    call_params,      \* input: timing and grid keywords this caller passes
    passed_keys,      \* history: keys passed by any call since construction
    analysis_params,  \* self.analysis_params
    movie,            \* the movie file: [frame_count, width, height]
    capture_pos,      \* self.capture: index of the next frame read() decodes
    file_exists,      \* does self.data_path exist
    file,             \* its contents: a sequence of records, row -> <<dx, dy>>
    pc,               \* idle, or inside _process_movie: loop, grid, step,
                      \* close, or raised: an uncaught exception ended the session
    fp_len,           \* records of the memory map fp (its first dimension)
    fp_open,          \* is the memory map fp alive
    windows,          \* do the HighGUI windows 'Image' and 'Histogram' exist
    frame_idx,        \* self.frame_idx
    frame,            \* the frame decoded in this iteration (its position)
    prev_frame_gray,  \* local prev_frame_gray (position of the frame it holds)
    prev_gray,        \* self.prev_gray (position, -1 before it is first set)
    prev_sub_grays,   \* local prev_sub_grays: per cell, position of its frame
    row,              \* next grid row of the current frame
    err,              \* exception that ended the last call ("none" if none)
    exit,             \* how the last run of _process_movie ended
    writes,           \* history: the stores into fp made by the current run
    flushes,          \* history: the fp.flush() calls of the current run
    q                 \* outcome of the last query call

vars == <<ctor_params, call_params, passed_keys, analysis_params, movie,
          capture_pos, file_exists, file, pc, fp_len, fp_open, windows, frame_idx, frame,
          prev_frame_gray, prev_gray, prev_sub_grays, row, err, exit, writes,
          flushes, q>>

(***************************************************************************)
(* Bounds of the model                                                     *)
(***************************************************************************)
\* longest movie, in frames
MaxFrames == 4
\* largest frame width and height of the movies of the grid specification
MaxSide == 4

(***************************************************************************)
(* Program constants                                                       *)
(***************************************************************************)
\* np.memmap(..., shape=(n, (64+1), 2)): rows of one record
RecordRows == 65
\* fp[self.frame_idx][64]: the row of the global estimate
GlobalRow == 64
\* columns of one record row (dx, dy)
RecordCols == 2
\* dtype='float32': bytes of one stored value
FloatBytes == 4
\* abs(fres) > 0.01, in thousandths
Threshold == 10
\* reshape((segment.time_span.duration*4), -1)
ViewRate == 4
\* kwargs hist_width / hist_height used by direct callers of _process_movie
HistWidth == 640
HistHeight == 480

RecordBytes == RecordRows * RecordCols * FloatBytes
RecordWords == RecordRows * RecordCols

(***************************************************************************)
(* Arithmetic helpers                                                      *)
(***************************************************************************)
Min(a, b) == IF a < b THEN a ELSE b
Max(a, b) == IF a > b THEN a ELSE b
Abs(a) == IF a < 0 THEN -a ELSE a

RECURSIVE Gcd(_, _)
Gcd(a, b) == IF b = 0 THEN a ELSE Gcd(b, a % b)

\* the float n/d (d > 0), as a fraction in lowest terms
Frac(n, d) ==
    LET g == Gcd(Abs(n), d) IN <<n \div g, d \div g>>

\* the float 0.0, and the pair [0, 0]
Zero == <<0, 1>>
ZeroPair == <<Zero, Zero>>

(***************************************************************************)
(* Parameter dictionaries                                                  *)
(***************************************************************************)
default_phasecorr_params ==
    [action_dir |-> "~/Movies/action/",
     movie_extension |-> ".mov",
     data_extension |-> ".phasecorr",
     mode |-> "analyze",
     grid_divs_x |-> 8,
     grid_divs_y |-> 8,
     fps |-> 24,
     offset |-> 0,
     duration |-> -1,
     stride |-> 1,
     verbose |-> FALSE,
     display |-> TRUE,
     hist_shrink_factor |-> "0.5",
     hist_width_ratio |-> "1.0",
     hist_height_ratio |-> "1.0",
     horiz_offset |-> "1.0",
     vert_offset |-> "0.0"]

\* the dictionary d restricted to the keys ks
Restrict(d, ks) == [k \in ks |-> d[k]]

\* _check_analysis_params(given), given not None: self.analysis_params
\* becomes the given dictionary itself, with every default key it lacks
\* filled in from the defaults.  (With None the stored dictionary is given.)
check_analysis_params(given) ==
    [k \in (DOMAIN given) \cup (DOMAIN default_phasecorr_params) |->
        IF k \in DOMAIN given THEN given[k] ELSE default_phasecorr_params[k]]

(***************************************************************************)
(* _process_movie: geometry and the seconds / strides / frames arithmetic  *)
(***************************************************************************)
frame_width == movie.width
frame_height == movie.height
grid_width(ap) == frame_width \div ap["grid_divs_x"]
grid_height(ap) == frame_height \div ap["grid_divs_y"]

dur_total_secs(ap) == movie.frame_count \div ap["fps"]
offset_secs(ap) == Min(Max(ap["offset"], 0), dur_total_secs(ap))
\* faulty variant: the duration is clamped to the whole movie, whatever
\* the offset
dur_secs_from_start(ap) ==
    LET requested == IF ap["duration"] < 0 THEN dur_total_secs(ap)
                     ELSE ap["duration"]
    IN  Min(Max(requested, 0), dur_total_secs(ap))

dur_secs(ap) ==
    LET requested == IF ap["duration"] < 0 THEN dur_total_secs(ap)
                     ELSE ap["duration"]
    IN  Min(Max(requested, 0), dur_total_secs(ap) - offset_secs(ap))
offset_strides(ap) == offset_secs(ap) * (ap["fps"] \div ap["stride"])
dur_strides(ap) == dur_secs(ap) * (ap["fps"] \div ap["stride"])
offset_frames(ap) == offset_strides(ap) * ap["stride"]
dur_frames(ap) == dur_strides(ap) * ap["stride"]
end_frame(ap) == offset_frames(ap) + dur_frames(ap)

\* the memory map is opened 'r+' over the existing file (else 'w+')
MapsExisting(ap) == ap["mode"] = "playback" /\ ap["display"] = TRUE

\* faulty variant: the map is allocated one record too long
MapRecordsPlusOne(ap) ==
    IF MapsExisting(ap) THEN offset_strides(ap) + dur_strides(ap) + 1
    ELSE dur_strides(ap) + 1

\* first dimension of the shape handed to np.memmap
MapRecords(ap) ==
    IF MapsExisting(ap) THEN offset_strides(ap) + dur_strides(ap)
    ELSE dur_strides(ap)

\* a record as the backing store allocates it: all zeros
ZeroRecord == [r \in 0 .. RecordRows - 1 |-> ZeroPair]

\* faulty variant: the new records hold stale data instead of zeros
ZerosStale(n) ==
    IF n <= 0 THEN <<>>
    ELSE [i \in 1 .. n |-> [r \in 0 .. RecordRows - 1 |-> <<Frac(1, 2), Zero>>]]

\* n freshly allocated records
Zeros(n) == IF n <= 0 THEN <<>> ELSE [i \in 1 .. n |-> ZeroRecord]

\* size of the data file in bytes
FileSize == Len(file) * RecordBytes

(***************************************************************************)
(* cv2.phaseCorrelateRes(prev, cur, window) on region k of two frames      *)
(* (k = -1: the full frame; k >= 0: grid cell k).  The engine is external; *)
(* it is a fixed function of the pixels of the two regions, standing for   *)
(* the movie's content: the shift grows with the distance between the two  *)
(* frames, and the response takes values on both sides of the threshold.   *)
(***************************************************************************)
Responses == <<0, 10, 11, -25, 40>>
phaseCorrelateRes(prev, cur, k) ==
    [dx |-> cur - prev,
     dy |-> ((cur + 2 * k + 4) % 5) - 2,
     res |-> Responses[((cur + k + 1) % 5) + 1]]

\* faulty variant: the gate passes a response equal to the threshold
StoredPairGateInclusive(est, w, h) ==
    IF Abs(est.res) >= Threshold
    THEN <<Frac(est.dx, w), Frac(est.dy, h)>>
    ELSE ZeroPair

\* the pair stored for an estimate over a region the code takes to be w x h
StoredPair(est, w, h) ==
    IF Abs(est.res) > Threshold
    THEN <<Frac(est.dx, w), Frac(est.dy, h)>>
    ELSE ZeroPair

\* pixel bounds of the slice of the priming frame kept for grid cell (r, c)
\* at line 552
PrimeCellBounds(ap, r, c) ==
    [x0 |-> Min(c * grid_width(ap), frame_width),
     x1 |-> Min((c + 1) * grid_width(ap), frame_width),
     y0 |-> Min(r * grid_height(ap), frame_height),
     y1 |-> Min((r + 1) * grid_height(ap), frame_height)]

\* faulty variant: the cell height is used along x and the width along y
CellBoundsSwapped(ap, r, c) ==
    [x0 |-> Min(c * grid_height(ap), frame_width),
     x1 |-> Min((c + 1) * grid_height(ap), frame_width),
     y0 |-> Min(r * grid_width(ap), frame_height),
     y1 |-> Min((r + 1) * grid_width(ap), frame_height)]

\* pixel bounds of the slice frame_gray[r*gh:(r+1)*gh, c*gw:(c+1)*gw] of
\* grid cell (r, c); a numpy slice stops at the edge of the frame
CellBounds(ap, r, c) ==
    [x0 |-> Min(c * grid_width(ap), frame_width),
     x1 |-> Min((c + 1) * grid_width(ap), frame_width),
     y0 |-> Min(r * grid_height(ap), frame_height),
     y1 |-> Min((r + 1) * grid_height(ap), frame_height)]

\* faulty variant: cells are numbered with the other divisor
CellRowColumnMajor(ap, r, c) == (r * ap["grid_divs_y"]) + c

\* row of the record that receives grid cell (r, c)
CellRow(ap, r, c) == (r * ap["grid_divs_x"]) + c

(***************************************************************************)
(* Inputs of the model                                                     *)
(***************************************************************************)
\* keyword arguments given to the constructor
CtorChoices ==
    { Restrict([stride |-> 2, fps |-> 2, hist_width |-> HistWidth], ks) :
        ks \in { {}, {"stride", "fps", "hist_width"} } }

\* offset and duration arguments of the public driver methods, in seconds
Offsets == {0, 1}
Durations == {-1, 1}

\* timing and grid keywords of a direct call of _process_movie
Grids == { <<2, 1>>, <<8, 8>>, <<9, 8>> }
CallChoices ==
    { [offset |-> o, duration |-> du, fps |-> f, stride |-> s,
       grid_divs_x |-> g[1], grid_divs_y |-> g[2]] :
        o \in Offsets, du \in Durations, f \in {1, 2}, s \in {1, 2},
        g \in Grids }

\* the other keywords of a direct call: mode, display and the two window
\* sizes the driver reads but the defaults lack
ModeChoices ==
    { Restrict([mode |-> m, display |-> dk[1],
                hist_width |-> HistWidth, hist_height |-> HistHeight],
               {"mode", "display", "hist_width"} \cup dk[2]) :
        m \in {"analyze", "playback"},
        dk \in { <<FALSE, {"hist_height"}>>, <<TRUE, {"hist_height"}>>,
                 <<TRUE, {}>> } }

\* the union of two dictionaries with disjoint keys
Join(a, b) ==
    [k \in (DOMAIN a) \cup (DOMAIN b) |-> IF k \in DOMAIN a THEN a[k] ELSE b[k]]

\* no query has been made
NoQuery ==
    [method |-> "none", start |-> 0, dur |-> 0, mapped |-> FALSE,
     offset |-> 0, nrec |-> 0, kind |-> "none", shape |-> <<>>]

\* the state after construction, whatever the caller will pass later, for
\* a movie of frames w pixels wide and h pixels high
InitFor(w, h) ==
    /\ ctor_params \in CtorChoices
    /\ analysis_params = check_analysis_params(ctor_params)
    /\ passed_keys = {}
    /\ movie = [frame_count |-> MaxFrames, width |-> w, height |-> h]
    /\ capture_pos = 0
    /\ file_exists = FALSE
    /\ file = <<>>
    /\ pc = "idle"
    /\ fp_len = 0
    /\ fp_open = FALSE
    /\ windows = FALSE
    /\ frame_idx = 0
    /\ frame = -1
    /\ prev_frame_gray = -1
    /\ prev_gray = -1
    /\ prev_sub_grays = <<>>
    /\ row = 0
    /\ err = "none"
    /\ exit = "none"
    /\ writes = <<>>
    /\ flushes = <<>>
    /\ q = NoQuery

InitObject == InitFor(18, 16)

Init == call_params \in CallChoices /\ InitObject

(***************************************************************************)
(* _process_movie, lines 446-552: parameters, memory map, windows, seek,   *)
(* first frame, priming of the previous-frame buffers.                     *)
(* decoded: does the decoder deliver the frame it is asked for.            *)
(* An exception leaves the function without its clean-up (the map object   *)
(* stays referenced by the traceback) and is not caught by the caller: the *)
(* session ends there.                                                     *)
(***************************************************************************)
process_movie(kwargs, decoded) ==
    LET ap == check_analysis_params(kwargs)
        n == MapRecords(ap)
        existing == MapsExisting(ap)
        cells == ap["grid_divs_x"] * ap["grid_divs_y"]
        first == offset_frames(ap)
        map_error ==
            IF existing
            THEN IF ~file_exists THEN "IOError"
                 ELSE IF n = 0 /\ Len(file) = 0 THEN "ValueError"
                 ELSE "none"
            ELSE IF n = 0 THEN "IOError" ELSE "none"
        mapped_file ==
            IF existing THEN file \o Zeros(n - Len(file)) ELSE Zeros(n)
        got == decoded /\ first < movie.frame_count
    IN
    /\ pc = "idle"
    /\ analysis_params' = ap
    /\ passed_keys' = passed_keys \cup DOMAIN kwargs
    /\ q' = NoQuery
    /\ writes' = <<>>
    /\ flushes' = <<>>
    /\ row' = 0
    /\ frame' = -1
    /\ UNCHANGED <<ctor_params, call_params, movie, prev_gray>>
    /\ IF "hist_width" \notin DOMAIN ap
       THEN \* line 470: ap['hist_width'] raises KeyError
            /\ err' = "KeyError" /\ exit' = "exception" /\ pc' = "raised"
            /\ capture_pos' = 0
            /\ UNCHANGED <<file_exists, file, fp_len, fp_open, windows,
                           frame_idx, prev_frame_gray, prev_sub_grays>>
       ELSE IF map_error # "none"
       THEN \* lines 511-514: np.memmap fails; 'w+' has truncated the file
            /\ err' = map_error /\ exit' = "exception" /\ pc' = "raised"
            /\ capture_pos' = 0
            /\ file_exists' = (file_exists \/ ~existing)
            /\ file' = IF existing THEN file ELSE <<>>
            /\ UNCHANGED <<fp_len, fp_open, windows, frame_idx,
                           prev_frame_gray, prev_sub_grays>>
       ELSE /\ file_exists' = TRUE
            /\ file' = mapped_file
            /\ fp_len' = n
            /\ windows' = (windows \/ ap["display"])
            /\ IF ap["display"] /\ "hist_height" \notin DOMAIN ap
               THEN \* line 525: ap['hist_height'] raises KeyError
                    /\ err' = "KeyError" /\ exit' = "exception"
                    /\ pc' = "raised"
                    /\ fp_open' = TRUE
                    /\ capture_pos' = 0
                    /\ frame_idx' = first
                    /\ UNCHANGED <<prev_frame_gray, prev_sub_grays>>
               ELSE IF ~got
               THEN \* lines 540-542: no first frame, plain return
                    /\ err' = "none" /\ exit' = "first_frame_error"
                    /\ pc' = "idle"
                    /\ fp_open' = FALSE
                    /\ capture_pos' = first
                    /\ frame_idx' = first
                    /\ UNCHANGED <<prev_frame_gray, prev_sub_grays>>
               ELSE \* lines 543-552: prime the previous-frame buffers
                    /\ err' = "none" /\ exit' = "none" /\ pc' = "loop"
                    /\ fp_open' = TRUE
                    /\ capture_pos' = first + 1
                    /\ frame_idx' = first + 1
                    /\ prev_frame_gray' = first
                    /\ prev_sub_grays' = [k \in 1 .. cells |-> first]

\* analyze_movie(offset, duration)
analyze_movie ==
    \E decoded \in BOOLEAN :
        process_movie([mode |-> "analyze", display |-> FALSE,
                       offset |-> call_params.offset,
                       duration |-> call_params.duration], decoded)

\* analyze_movie_with_display(offset, duration)
analyze_movie_with_display ==
    \E decoded \in BOOLEAN :
        process_movie([mode |-> "analyze", display |-> TRUE,
                       offset |-> call_params.offset,
                       duration |-> call_params.duration], decoded)

\* playback_movie(offset, duration)
playback_movie ==
    \E decoded \in BOOLEAN :
        process_movie([mode |-> "playback", display |-> TRUE,
                       offset |-> call_params.offset,
                       duration |-> call_params.duration], decoded)

\* _process_movie called directly with keyword arguments
process_movie_direct ==
    \E md \in ModeChoices, decoded \in BOOLEAN :
        process_movie(Join(md, call_params), decoded)

\* _process_movie called directly the way analyze_movie means to call it
AnalyzeKwargs ==
    Join([mode |-> "analyze", display |-> FALSE, hist_width |-> HistWidth],
         call_params)
analyze_direct ==
    \E decoded \in BOOLEAN : process_movie(AnalyzeKwargs, decoded)

(***************************************************************************)
(* _process_movie, the loop (lines 554-637) and the clean-up (639-642)     *)
(***************************************************************************)
\* an exception propagates out of _process_movie
Raise(e) == err' = e /\ exit' = "exception" /\ pc' = "raised"

\* line 554: the while condition is false
LoopExit ==
    /\ pc = "loop"
    /\ ~(frame_idx < end_frame(analysis_params))
    /\ pc' = "close"
    /\ exit' = "end"
    /\ UNCHANGED <<ctor_params, call_params, passed_keys, analysis_params,
                   movie, capture_pos, file_exists, file, fp_len, fp_open, windows,
                   frame_idx, frame, prev_frame_gray, prev_gray,
                   prev_sub_grays, row, err, writes, flushes, q>>

\* lines 554-573: read the next frame and store the global estimate
LoopRead ==
    \E decoded \in BOOLEAN :
    LET got == decoded /\ capture_pos < movie.frame_count
        est == phaseCorrelateRes(prev_frame_gray, capture_pos, -1)
        val == StoredPair(est, frame_width, frame_height)
    IN
    /\ pc = "loop"
    /\ frame_idx < end_frame(analysis_params)
    /\ UNCHANGED <<ctor_params, call_params, passed_keys, analysis_params,
                   movie, file_exists, fp_len, fp_open, windows, frame_idx,
                   prev_frame_gray, prev_gray, prev_sub_grays, flushes, q>>
    /\ IF ~got
       THEN \* lines 560-562: frame is None, break
            /\ pc' = "close"
            /\ exit' = "frame_error"
            /\ UNCHANGED <<capture_pos, file, frame, row, err, writes>>
       ELSE /\ frame' = capture_pos
            /\ capture_pos' = capture_pos + 1
            /\ row' = 0
            /\ IF frame_idx >= fp_len
               THEN \* fp[self.frame_idx] raises IndexError
                    /\ Raise("IndexError")
                    /\ UNCHANGED <<file, writes>>
               ELSE /\ file' = [file EXCEPT ![frame_idx + 1][GlobalRow] = val]
                    /\ writes' = Append(writes,
                          [rec |-> frame_idx, row |-> GlobalRow,
                           gr |-> -1, gc |-> -1,
                           prev |-> prev_frame_gray, cur |-> capture_pos,
                           est |-> est, val |-> val])
                    /\ pc' = "grid"
                    /\ UNCHANGED <<err, exit>>

\* lines 590-628: one row of the grid: every cell of the row is correlated
\* with its previous version and stored, then display and flush
GridRow ==
    LET ap == analysis_params
        xdivs == ap["grid_divs_x"]
        ydivs == ap["grid_divs_y"]
        bad == { c \in 0 .. xdivs - 1 : CellRow(ap, row, c) >= RecordRows }
        stored == IF bad = {} THEN xdivs
                  ELSE CHOOSE c \in bad : \A d \in bad : c <= d
        touched == IF bad = {} THEN xdivs ELSE stored + 1
        est(c) == phaseCorrelateRes(prev_sub_grays[CellRow(ap, row, c) + 1],
                                    frame, CellRow(ap, row, c))
        val(c) == StoredPair(est(c), grid_width(ap), grid_height(ap))
        last(r) == CHOOSE c \in 0 .. stored - 1 :
                      /\ CellRow(ap, row, c) = r
                      /\ \A d \in 0 .. stored - 1 :
                            CellRow(ap, row, d) = r => d <= c
    IN
    /\ pc = "grid"
    /\ prev_sub_grays' =
          [k \in DOMAIN prev_sub_grays |->
              IF \E c \in 0 .. touched - 1 : CellRow(ap, row, c) + 1 = k
              THEN frame ELSE prev_sub_grays[k]]
    /\ file' = [file EXCEPT ![frame_idx + 1] =
                  [r \in 0 .. RecordRows - 1 |->
                      IF \E c \in 0 .. stored - 1 : CellRow(ap, row, c) = r
                      THEN val(last(r)) ELSE @[r]]]
    /\ writes' = writes \o
          [i \in 1 .. stored |->
              [rec |-> frame_idx, row |-> CellRow(ap, row, i - 1),
               gr |-> row, gc |-> i - 1,
               prev |-> prev_sub_grays[CellRow(ap, row, i - 1) + 1],
               cur |-> frame, est |-> est(i - 1), val |-> val(i - 1)]]
    /\ UNCHANGED <<ctor_params, call_params, passed_keys, analysis_params,
                   movie, capture_pos, file_exists, fp_len, fp_open, windows,
                   frame_idx, frame, prev_frame_gray, prev_gray, q>>
    /\ IF bad # {}
       THEN \* fp[self.frame_idx][65...] raises IndexError
            /\ Raise("IndexError")
            /\ UNCHANGED <<row, flushes>>
       ELSE IF ap["display"]
       THEN \* line 627: histimg is not defined, NameError
            /\ Raise("NameError")
            /\ UNCHANGED <<row, flushes>>
       ELSE /\ flushes' = Append(flushes,
                            [rec |-> frame_idx, rows |-> row + 1,
                             stores |-> Len(writes) + stored])
            /\ row' = row + 1
            /\ pc' = IF row + 1 < ydivs THEN "grid" ELSE "step"
            /\ UNCHANGED <<err, exit>>

\* lines 630-637: advance, remember the frame, poll the keyboard.
\* cv.WaitKey reports a key only while a HighGUI window exists.
LoopStep ==
    \E key \in {-1, 27} :
    LET k == IF windows THEN key ELSE -1 IN
    /\ pc = "step"
    /\ frame_idx' = frame_idx + 1
    /\ prev_gray' = frame
    /\ IF k % 256 = 27
       THEN pc' = "close" /\ exit' = "esc"
       ELSE pc' = "loop" /\ exit' = exit
    /\ UNCHANGED <<ctor_params, call_params, passed_keys, analysis_params,
                   movie, capture_pos, file_exists, file, fp_len, fp_open, windows,
                   frame, prev_frame_gray, prev_sub_grays, row, err, writes,
                   flushes, q>>

\* lines 639-642: del fp, destroy the windows if display is on
Close ==
    /\ pc = "close"
    /\ pc' = "idle"
    /\ fp_open' = FALSE
    /\ windows' = IF analysis_params["display"] THEN FALSE ELSE windows
    /\ UNCHANGED <<ctor_params, call_params, passed_keys, analysis_params,
                   movie, capture_pos, file_exists, file, fp_len, frame_idx, frame,
                   prev_frame_gray, prev_gray, prev_sub_grays, row, err,
                   exit, writes, flushes, q>>

(***************************************************************************)
(* determine_movie_length, lines 404-418, with the movie present           *)
(***************************************************************************)
\* the empty keyword dictionary
NoKwargs == Restrict(default_phasecorr_params, {})

\* its return value: whole seconds of the movie at the fps of the merged
\* parameters
movie_length(kwargs) ==
    movie.frame_count \div check_analysis_params(kwargs)["fps"]

determine_movie_length ==
    \E kwargs \in {NoKwargs, [fps |-> 2]} :
    /\ pc = "idle"
    /\ analysis_params' = check_analysis_params(kwargs)
    /\ passed_keys' = passed_keys \cup DOMAIN kwargs
    /\ q' = [method |-> "determine_movie_length", start |-> 0, dur |-> 0,
             mapped |-> FALSE, offset |-> 0, nrec |-> 0,
             kind |-> "value", shape |-> <<movie_length(kwargs)>>]
    /\ err' = "none"
    /\ UNCHANGED <<ctor_params, call_params, movie, capture_pos, file_exists,
                   file, pc, fp_len, fp_open, windows, frame_idx, frame,
                   prev_frame_gray, prev_gray, prev_sub_grays, row, exit,
                   writes, flushes>>

(***************************************************************************)
(* The data file read back: _phasecorr_features_for_segment_from_onset_    *)
(* with_duration, lines 366-380                                            *)
(***************************************************************************)
\* the i-th float32 of the data file (i from 0)
FileWord(i) ==
    file[(i \div RecordWords) + 1][(i % RecordWords) \div RecordCols]
        [(i % RecordCols) + 1]

\* the float32 made of the four bytes of the file that start at byte b
ReadFloat(b) ==
    IF b % FloatBytes = 0 THEN FileWord(b \div FloatBytes)
    ELSE LET lo == FileWord(b \div FloatBytes)
             hi == FileWord((b \div FloatBytes) + 1)
         IN  IF lo = Zero /\ hi = Zero THEN Zero
             ELSE <<lo[1], lo[2], hi[1], hi[2], b % FloatBytes>>

\* the offset argument of np.memmap, in bytes, for a given onset_frame
MapOffset(onset_frame) == onset_frame

\* the reader up to np.memmap: [error, nrec, offset, params]; params is
\* self.analysis_params afterwards (a negative duration goes through
\* determine_movie_length(), which replaces it by the defaults, while the
\* reader keeps using the dictionary it fetched before)
reader(onset_frame, duration_frames) ==
    LET ap == analysis_params
        neg == duration_frames < 0
        nrec == IF neg
                THEN movie_length(NoKwargs) * (ap["fps"] \div ap["stride"])
                ELSE duration_frames
        off == MapOffset(onset_frame)
    IN  [error |-> IF ~file_exists THEN "IOError"
                   ELSE IF FileSize = 0
                           \/ off + (nrec * RecordBytes) > FileSize
                   THEN "ValueError"
                   ELSE "none",
         nrec |-> nrec, offset |-> off,
         params |-> IF neg THEN check_analysis_params(NoKwargs) ELSE ap]

\* mapped[r] flattened, word w (r, w from 0) of a map at byte offset off
MappedWord(off, r, w) ==
    ReadFloat(off + (FloatBytes * ((r * RecordWords) + w)))

\* the rows of the map each view selects
SelFull == <<GlobalRow>>
SelGridAll == [i \in 1 .. GlobalRow |-> i - 1]
SelCenterQuad == <<5, 6, 9, 10>>
SelMiddleBand == <<4, 5, 6, 7, 8, 9, 10, 11>>
SelPlusBand == <<1, 2, 4, 5, 6, 7, 8, 9, 10, 11, 13, 14>>
Sel(method) ==
    CASE method = "full" -> SelFull
      [] method = "gridded" -> SelGridAll
      [] method = "center_quad" -> SelCenterQuad
      [] method = "middle_band" -> SelMiddleBand
      [] method = "plus_band" -> SelPlusBand

\* numpy reshape((rows, -1)) of n values: the shape, or <<>> for ValueError
ReshapeShape(n, rows) ==
    IF rows <= 0 \/ n % rows # 0 THEN <<>> ELSE <<rows, n \div rows>>

\* element (i, j), from 0, of a view's result with ncols columns: the
\* selection is flattened in C order (record, selected row, column)
ViewValue(sel, off, ncols, i, j) ==
    LET f == (i * ncols) + j
        per == Len(sel) * RecordCols
    IN  MappedWord(off, f \div per,
                   (sel[((f % per) \div RecordCols) + 1] * RecordCols)
                   + (f % RecordCols))

\* the segments callers ask for: start and duration in seconds
Segments == { [start |-> s, dur |-> d] : s \in {0, 1}, d \in {-1, 0, 1, 2} }

\* the callers whose runs the query specification follows: the default
\* grid, stride 1, no offset
QueryCallChoices ==
    { c \in CallChoices :
        /\ c.grid_divs_x = default_phasecorr_params.grid_divs_x
        /\ c.grid_divs_y = default_phasecorr_params.grid_divs_y
        /\ c.stride = 1 /\ c.offset = 0 }

\* what the other variables do during a query
QueryFrame ==
    UNCHANGED <<ctor_params, call_params, passed_keys, movie, capture_pos,
                file_exists, file, fp_len, fp_open, windows, frame_idx,
                frame, prev_frame_gray, prev_gray, prev_sub_grays, row,
                exit, writes, flushes>>

\* a view method: read, select, reshape to duration*4 rows.  The result is
\* a view of the map: q keeps its shape, ViewValue gives its elements.
View(method) ==
    \E seg \in Segments :
    LET rd == reader(seg.start, seg.dur)
        shape == ReshapeShape(rd.nrec * Len(Sel(method)) * RecordCols,
                              seg.dur * ViewRate)
        e == IF rd.error # "none" THEN rd.error
             ELSE IF shape = <<>> THEN "ValueError" ELSE "none"
    IN
    /\ pc = "idle"
    /\ analysis_params' = rd.params
    /\ q' = [method |-> method, start |-> seg.start, dur |-> seg.dur,
             mapped |-> (rd.error = "none"), offset |-> rd.offset,
             nrec |-> rd.nrec,
             kind |-> IF e = "none" THEN "data" ELSE "error",
             shape |-> IF e = "none" THEN shape ELSE <<>>]
    /\ err' = e
    /\ pc' = IF e = "none" THEN "idle" ELSE "raised"
    /\ QueryFrame

full_phasecorr_features_for_segment ==
    View("full")
gridded_phasecorr_features_for_segment ==
    View("gridded")
center_quad_phasecorr_features_for_segment ==
    View("center_quad")
middle_band_phasecorr_features_for_segment ==
    View("middle_band")
plus_band_phasecorr_features_for_segment ==
    View("plus_band")

\* phasecorr_features_for_segment, lines 245-248: reads, then returns None
phasecorr_features_for_segment ==
    \E seg \in Segments :
    LET rd == reader(seg.start, seg.dur) IN
    /\ pc = "idle"
    /\ analysis_params' = rd.params
    /\ q' = [method |-> "base", start |-> seg.start, dur |-> seg.dur,
             mapped |-> (rd.error = "none"), offset |-> rd.offset,
             nrec |-> rd.nrec,
             kind |-> IF rd.error = "none" THEN "None" ELSE "error",
             shape |-> <<>>]
    /\ err' = rd.error
    /\ pc' = IF rd.error = "none" THEN "idle" ELSE "raised"
    /\ QueryFrame

\* the reader called on its own with an onset and a duration in frames:
\* returns (mapped[:,64,:], mapped[:,:64,:]), views of nrec records
phasecorr_features_from_onset_with_duration ==
    \E seg \in Segments :
    LET rd == reader(seg.start, seg.dur) IN
    /\ pc = "idle"
    /\ analysis_params' = rd.params
    /\ q' = [method |-> "reader", start |-> seg.start, dur |-> seg.dur,
             mapped |-> (rd.error = "none"), offset |-> rd.offset,
             nrec |-> rd.nrec,
             kind |-> IF rd.error = "none" THEN "data" ELSE "error",
             shape |-> IF rd.error = "none" THEN <<rd.nrec, RecordWords>>
                       ELSE <<>>]
    /\ err' = rd.error
    /\ pc' = IF rd.error = "none" THEN "idle" ELSE "raised"
    /\ QueryFrame

\* phasecorr_features_for_segment_with_stride, lines 336-354: line 346
\* calls self.s_movie_length(), which does not exist
phasecorr_features_for_segment_with_stride ==
    \E seg \in Segments :
    /\ pc = "idle"
    /\ analysis_params' = IF seg.dur < 0 THEN check_analysis_params(NoKwargs)
                          ELSE check_analysis_params(analysis_params)
    /\ q' = [method |-> "with_stride", start |-> seg.start, dur |-> seg.dur,
             mapped |-> FALSE, offset |-> 0, nrec |-> 0,
             kind |-> "error", shape |-> <<>>]
    /\ err' = "AttributeError"
    /\ pc' = "raised"
    /\ QueryFrame

Query ==
    \/ full_phasecorr_features_for_segment
    \/ gridded_phasecorr_features_for_segment
    \/ center_quad_phasecorr_features_for_segment
    \/ middle_band_phasecorr_features_for_segment
    \/ plus_band_phasecorr_features_for_segment
    \/ phasecorr_features_for_segment
    \/ phasecorr_features_from_onset_with_duration
    \/ phasecorr_features_for_segment_with_stride

Driver ==
    \/ analyze_movie
    \/ analyze_movie_with_display
    \/ playback_movie
    \/ process_movie_direct
    \/ LoopExit
    \/ LoopRead
    \/ GridRow
    \/ LoopStep
    \/ Close

Next == Driver

Spec == Init /\ [][Next]_vars

\* the data file written by analysis runs and then queried
QueryInit == Init /\ call_params \in QueryCallChoices

QueryNext ==
    \/ analyze_direct
    \/ LoopExit
    \/ LoopRead
    \/ GridRow
    \/ LoopStep
    \/ Close
    \/ determine_movie_length
    \/ Query

QuerySpec == QueryInit /\ [][QueryNext]_vars

\* callers that ask for any offset and duration, in seconds, from below
\* zero to beyond the length of the movie
TimingCallChoices ==
    { [offset |-> o, duration |-> du, fps |-> f, stride |-> s,
       grid_divs_x |-> 2, grid_divs_y |-> 1] :
        o \in -1 .. MaxFrames + 1, du \in -1 .. MaxFrames + 1,
        f \in {1, 2}, s \in {1, 2} }

TimingInit == call_params \in TimingCallChoices /\ InitObject

TimingNext ==
    \/ analyze_direct
    \/ LoopExit
    \/ LoopRead
    \/ GridRow
    \/ LoopStep
    \/ Close

TimingSpec == TimingInit /\ [][TimingNext]_vars

\* movies of every small frame shape, analysed with every grid whose
\* divisors do not exceed the frame's sides
GridInit ==
    \E w \in 1 .. MaxSide, h \in 1 .. MaxSide :
        /\ InitFor(w, h)
        /\ call_params \in
              { [offset |-> 0, duration |-> -1, fps |-> 1, stride |-> 1,
                 grid_divs_x |-> gx, grid_divs_y |-> gy] :
                  gx \in 1 .. w, gy \in 1 .. h }

GridNext ==
    \/ analyze_direct
    \/ LoopExit
    \/ LoopRead
    \/ GridRow
    \/ LoopStep
    \/ Close

GridSpec == GridInit /\ [][GridNext]_vars

(***************************************************************************)
(* Properties                                                              *)
(***************************************************************************)
\* the current or last run of _process_movie got its memory map
RunMapped ==
    \/ pc \in {"loop", "grid", "step", "close"}
    \/ pc = "idle" /\ exit \in {"end", "esc", "frame_error",
                                "first_frame_error"}
    \/ pc = "raised" /\ fp_open

\* the set of elements of a sequence
Range(seq) == { seq[i] : i \in 1 .. Len(seq) }

\* the last store of the run into row r of record rec, if there is one
Stored(rec, r) == { i \in 1 .. Len(writes) :
                      writes[i].rec = rec /\ writes[i].row = r }
LastStore(rec, r) ==
    writes[CHOOSE i \in Stored(rec, r) : \A j \in Stored(rec, r) : j <= i]

RegionWidth(w) ==
    IF w.gr = -1 THEN frame_width
    ELSE CellBounds(analysis_params, w.gr, w.gc).x1
         - CellBounds(analysis_params, w.gr, w.gc).x0
RegionHeight(w) ==
    IF w.gr = -1 THEN frame_height
    ELSE CellBounds(analysis_params, w.gr, w.gc).y1
         - CellBounds(analysis_params, w.gr, w.gc).y0

C6_GateAndNormalize ==
    /\ \A w \in Range(writes) :
          w.val = IF Abs(w.est.res) <= Threshold THEN ZeroPair
                  ELSE <<Frac(w.est.dx, RegionWidth(w)),
                         Frac(w.est.dy, RegionHeight(w))>>
    /\ \A rec \in 0 .. Len(file) - 1, r \in 0 .. RecordRows - 1 :
          Stored(rec, r) # {} => file[rec + 1][r] = LastStore(rec, r).val

\* C6 witness: one run has stored a gated global estimate, a passed global
\* estimate, a cell estimate whose strength is exactly the threshold and a
\* passed cell estimate
C6_Witness ==
    /\ \E w \in Range(writes) :
          w.gr = -1 /\ Abs(w.est.res) <= Threshold /\ w.val = ZeroPair
    /\ \E w \in Range(writes) :
          w.gr = -1 /\ Abs(w.est.res) > Threshold /\ w.val # ZeroPair
    /\ \E w \in Range(writes) :
          w.gr >= 0 /\ Abs(w.est.res) = Threshold /\ w.est.dx # 0
    /\ \E w \in Range(writes) :
          w.gr >= 0 /\ w.est.res < -Threshold /\ w.val # ZeroPair

\* the keys of the parameter dictionary that _process_movie reads
DriverKeys ==
    {"fps", "grid_divs_x", "grid_divs_y", "verbose", "hist_width",
     "duration", "offset", "stride", "mode", "display", "vert_offset"}

\* C9 as stated: after the merge every parameter the driver reads is
\* defined, so _process_movie never fails on a missing parameter.
C9_Original ==
    exit # "none" =>
        /\ DriverKeys \subseteq DOMAIN analysis_params
        /\ err # "KeyError"

\* C10 as stated: the driver commits one record per stride source frames,
\* so every committed record comes from a source frame a multiple of stride
\* after the first, and a run that completes normally has committed
\* dur_strides records.
C10_Original ==
    /\ \A w \in Range(writes) :
          (w.cur - offset_frames(analysis_params))
              % analysis_params["stride"] = 0
    /\ (pc = "idle" /\ exit = "end") =>
          Cardinality({ w.rec : w \in Range(writes) })
              = dur_strides(analysis_params)

\* the view methods, and the public query methods
Views == {"full", "gridded", "center_quad", "middle_band", "plus_band"}
PublicQueries == Views \cup {"base", "with_stride"}

\* C3 as stated: a query for onset frame f maps the file from byte
\* f * (record size), so record k of what it returns is the record the
\* driver wrote at index f + k.
C3_Original ==
    (q.method \in Views \cup {"base", "reader"} /\ q.mapped) =>
        /\ q.offset = q.start * RecordBytes
        /\ \A k \in 0 .. q.nrec - 1, w \in 0 .. RecordWords - 1 :
              MappedWord(q.offset, k, w)
                  = FileWord(((q.start + k) * RecordWords) + w)

\* C4 as stated: after an analysis run has written its N records, the
\* gridded query for the segment covering the full duration returns N rows,
\* row i holding the 64 grid-cell pairs of record i as they were written.
C4_Original ==
    LET ap == check_analysis_params(AnalyzeKwargs)
        N == dur_strides(ap)
        width == (RecordRows - 1) * RecordCols
    IN  (/\ q.method = "gridded" /\ exit = "end" /\ q.mapped
         /\ q.start = 0 /\ q.dur = dur_secs(ap)) =>
            /\ q.kind = "data"
            /\ q.shape = <<N, width>>
            /\ \A i \in 0 .. N - 1, j \in 0 .. width - 1 :
                  ViewValue(SelGridAll, q.offset, width, i, j)
                      = file[i + 1][j \div RecordCols][(j % RecordCols) + 1]

\* C5 as stated: a view query over a segment of positive duration d returns
\* floor(d * fps / stride) rows of (selected cells) * 2 columns, row i
\* holding the (dx, dy) pairs of the selected cells of one stored record.
C5_Original ==
    (q.method \in Views /\ q.dur > 0 /\ q.mapped) =>
        LET sel == Sel(q.method)
            rows == (q.dur * analysis_params["fps"])
                        \div analysis_params["stride"]
            cols == Len(sel) * RecordCols
        IN  /\ q.kind = "data"
            /\ q.shape = <<rows, cols>>
            /\ \A i \in 0 .. rows - 1, j \in 0 .. cols - 1 :
                  ViewValue(sel, q.offset, cols, i, j)
                      = file[q.start + i + 1][sel[(j \div RecordCols) + 1]]
                            [(j % RecordCols) + 1]

\* C7 as stated: every query of negative or zero duration is rejected with
\* an error before the file is mapped, so none returns (not even None or an
\* empty array).
C7_Original ==
    (q.method \in PublicQueries \cup {"reader"} /\ q.dur <= 0) =>
        (q.kind = "error" /\ ~q.mapped)

\* C8 as stated: a key the caller set at construction keeps the
\* constructor's value in analysis_params unless a later call passed it.
C8_Original ==
    \A k \in DOMAIN ctor_params :
        k \notin passed_keys =>
            /\ k \in DOMAIN analysis_params
            /\ analysis_params[k] = ctor_params[k]

\* C11: when a frame read fails inside the loop at source frame k (the
\* value of frame_idx then) in a run that created its data file, the run
\* leaves the loop for the clean-up without an exception, every row stored
\* before k still holds the value stored last, and every record from k
\* onward, like every row never stored, is all zeros.
C11_DecodeFailure ==
    (exit = "frame_error" /\ ~MapsExisting(analysis_params)) =>
        /\ pc \in {"close", "idle"} /\ err = "none"
        /\ capture_pos = frame_idx
        /\ \A rec \in 0 .. Len(file) - 1, r \in 0 .. RecordRows - 1 :
              IF Stored(rec, r) # {}
              THEN rec < frame_idx /\ file[rec + 1][r] = LastStore(rec, r).val
              ELSE file[rec + 1][r] = ZeroPair
        /\ \A rec \in frame_idx .. Len(file) - 1 : file[rec + 1] = ZeroRecord

\* C11 witness: a run has returned after a failed read in the loop, with a
\* non-zero value stored before the failure and records left after it
C11_Witness ==
    /\ pc = "idle" /\ exit = "frame_error" /\ err = "none"
    /\ ~MapsExisting(analysis_params)
    /\ frame_idx < Len(file)
    /\ \E w \in Range(writes) :
          w.val # ZeroPair /\ file[w.rec + 1][w.row] = w.val

\* C12 as stated: whichever way a run that mapped the data file returns
\* (end of the loop, ESC, failed read of the first frame, failed read in the
\* loop), the memory map is released and, if display is on, the display
\* windows are destroyed.
C12_Original ==
    (pc = "idle" /\ exit \in {"end", "esc", "frame_error",
                              "first_frame_error"}) =>
        /\ ~fp_open
        /\ analysis_params["display"] => ~windows

\* C13 as stated: in a run that completed normally every record
\* 0 .. dur_strides-1 was written exactly once (one global store per
\* record, none skipped) and the stores went in ascending record order.
C13_Original ==
    (pc = "idle" /\ exit = "end") =>
        /\ \A rec \in 0 .. dur_strides(analysis_params) - 1 :
              Cardinality(Stored(rec, GlobalRow)) = 1
        /\ \A w \in Range(writes) :
              w.rec \in 0 .. dur_strides(analysis_params) - 1
        /\ \A i, j \in 1 .. Len(writes) :
              i < j => writes[i].rec <= writes[j].rec

\* C14 as stated: every estimate stored for a frame N, the global one and
\* each grid cell's, was computed between the region at the frame decoded
\* immediately before, N-1, and the region at frame N.
C14_Original ==
    \A w \in Range(writes) : w.prev = w.cur - 1

\* C15 as stated: every flush of the memory map comes when the record of
\* the current frame is complete (all grid_divs_y rows of cells stored after
\* the global estimate), and a record is flushed exactly once.
C15_Original ==
    /\ \A f \in Range(flushes) :
          f.rows = analysis_params["grid_divs_y"]
    /\ \A i, j \in 1 .. Len(flushes) :
          flushes[i].rec = flushes[j].rec => i = j
    /\ pc = "step" => \E f \in Range(flushes) : f.rec = frame_idx

\* the data file a run with parameters ap leaves when display is off, every
\* frame decodes and no index leaves the map: record rec, for each frame
\* read in the loop, holds the global estimate against the priming frame
\* and each cell's estimate against the frame before
FileWithoutDisplay(ap) ==
    LET first == offset_frames(ap)
        cells == ap["grid_divs_x"] * ap["grid_divs_y"]
    IN  [i \in 1 .. MapRecords(ap) |->
            IF i - 1 \in first + 1 .. end_frame(ap) - 1
            THEN [r \in 0 .. RecordRows - 1 |->
                     IF r = GlobalRow
                     THEN StoredPair(phaseCorrelateRes(first, i - 1, -1),
                                     frame_width, frame_height)
                     ELSE IF r < cells
                     THEN StoredPair(phaseCorrelateRes(i - 2, i - 1, r),
                                     grid_width(ap), grid_height(ap))
                     ELSE ZeroPair]
            ELSE ZeroRecord]

\* the parameters for which the run without display completes normally
CompletesWithoutDisplay(ap) ==
    /\ ~MapsExisting(ap)
    /\ "hist_width" \in DOMAIN ap
    /\ MapRecords(ap) > 0
    /\ end_frame(ap) <= MapRecords(ap)
    /\ ap["grid_divs_x"] * ap["grid_divs_y"] < RecordRows

\* C16 as stated: a run with display on (window sizes given) that has stopped
\* without a failed read and without ESC leaves in the data file exactly what the run with
\* display off leaves for the same movie and the same other parameters.
C16_Original ==
    (/\ pc \in {"idle", "raised"} /\ exit \in {"end", "exception"}
     /\ analysis_params["display"]
     /\ "hist_height" \in DOMAIN analysis_params
     /\ CompletesWithoutDisplay(analysis_params)) =>
        file = FileWithoutDisplay(analysis_params)

\* a run without display that ended normally left FileWithoutDisplay
WithoutDisplayAgrees ==
    (/\ pc = "idle" /\ exit = "end" /\ ~analysis_params["display"]
     /\ CompletesWithoutDisplay(analysis_params)) =>
        file = FileWithoutDisplay(analysis_params)

\* C17: whatever offset and duration a call of _process_movie is given
\* (negative, -1, beyond the end of the movie), the values it resolves
\* satisfy 0 <= offset_secs <= dur_total_secs, 0 <= dur_secs and
\* offset_secs + dur_secs <= dur_total_secs, a negative duration resolves
\* to dur_total_secs - offset_secs, and the map a run creates has
\* dur_secs * (fps / stride) records.
C17_Clamp ==
    passed_keys # {} =>
        LET ap == analysis_params
            total == dur_total_secs(ap)
            off == offset_secs(ap)
            dur == dur_secs(ap)
        IN  /\ 0 <= off /\ off <= total
            /\ 0 <= dur /\ off + dur <= total
            /\ ap["duration"] < 0 => dur = total - off
            /\ (RunMapped /\ ~MapsExisting(ap)) =>
                  fp_len = dur * (ap["fps"] \div ap["stride"])

\* C17 witness: a run asked for a negative offset and a duration beyond the
\* end of the movie has started with offset 0 and the whole movie
C17_Witness ==
    /\ pc = "loop"
    /\ analysis_params["offset"] < 0
    /\ analysis_params["duration"] > dur_total_secs(analysis_params)
    /\ offset_secs(analysis_params) = 0
    /\ dur_secs(analysis_params) = dur_total_secs(analysis_params)
    /\ fp_len = MaxFrames

\* the pixels <<x, y>> inside the bounds b
Pixels(b) == (b.x0 .. b.x1 - 1) \X (b.y0 .. b.y1 - 1)

\* C18: for a frame of w x h pixels and divisors 1 <= gx <= w, 1 <= gy <= h
\* the driver's grid has exactly gx*gy cells, each floor(w/gx) wide and
\* floor(h/gy) high, pairwise disjoint, together covering exactly the
\* top-left (floor(w/gx)*gx) x (floor(h/gy)*gy) pixels, numbered row-major
\* from 0 (top-left) to gx*gy-1 (bottom-right); the priming frame is cut
\* with the same bounds, into one buffer per cell.
C18_Partition ==
    LET ap == analysis_params
        gx == ap["grid_divs_x"]
        gy == ap["grid_divs_y"]
        w == frame_width
        h == frame_height
        cells == (0 .. gy - 1) \X (0 .. gx - 1)
        B(rc) == CellBounds(ap, rc[1], rc[2])
        N(rc) == CellRow(ap, rc[1], rc[2])
    IN  (passed_keys # {} /\ gx \in 1 .. w /\ gy \in 1 .. h) =>
            /\ { N(rc) : rc \in cells } = 0 .. (gx * gy) - 1
            /\ Cardinality(cells) = gx * gy
            /\ N(<<0, 0>>) = 0 /\ N(<<gy - 1, gx - 1>>) = (gx * gy) - 1
            /\ \A a, b \in cells :
                  (a[1] < b[1] \/ (a[1] = b[1] /\ a[2] < b[2])) => N(a) < N(b)
            /\ \A rc \in cells :
                  /\ B(rc).x1 - B(rc).x0 = w \div gx
                  /\ B(rc).y1 - B(rc).y0 = h \div gy
                  /\ PrimeCellBounds(ap, rc[1], rc[2]) = B(rc)
            /\ \A a, b \in cells :
                  a # b => Pixels(B(a)) \cap Pixels(B(b)) = {}
            /\ UNION { Pixels(B(rc)) : rc \in cells }
                  = (0 .. ((w \div gx) * gx) - 1) \X (0 .. ((h \div gy) * gy) - 1)
            /\ pc \in {"loop", "grid", "step", "close"} =>
                  Len(prev_sub_grays) = gx * gy
            /\ \A wr \in Range(writes) :
                  wr.gr >= 0 => /\ <<wr.gr, wr.gc>> \in cells
                                /\ wr.row = N(<<wr.gr, wr.gc>>)

\* C18 witness: a frame whose width is not a multiple of the divisor has
\* been cut into at least two rows and two columns, and the estimate of the
\* bottom-right cell has been stored
C18_Witness ==
    /\ pc = "step"
    /\ analysis_params["grid_divs_x"] >= 2 /\ analysis_params["grid_divs_y"] >= 2
    /\ frame_width % analysis_params["grid_divs_x"] # 0
    /\ \E wr \in Range(writes) :
          /\ wr.gr = analysis_params["grid_divs_y"] - 1
          /\ wr.gc = analysis_params["grid_divs_x"] - 1
          /\ wr.row = (analysis_params["grid_divs_x"]
                         * analysis_params["grid_divs_y"]) - 1

\* C19 as stated: every record index the driver writes to lies inside the
\* map, 0 <= frame_idx < number of records mapped, so no store into
\* fp[frame_idx] fails on the index.
C19_Original ==
    /\ pc \in {"grid", "step"} => (0 <= frame_idx /\ frame_idx < fp_len)
    /\ ~(pc = "raised" /\ err = "IndexError" /\ frame_idx >= fp_len)

====
